---- MODULE Spec2Model ----
(***************************************************************************)
(* OrionRAG chat pipeline (backend/app/api/routes/chat.py) and the parts   *)
(* of GeminiClient (backend/app/services/gemini_client.py) it calls:       *)
(* query expansion, per-query embedding, batched search, Reciprocal Rank   *)
(* Fusion, listwise re-ranking, context assembly and answer generation.    *)
(*                                                                         *)
(* A text is a sequence of characters, so that str.strip() is computed.    *)
(* An optional value (str | None, a payload that may be None) is a         *)
(* sequence of length at most one: <<>> is None, <<v>> is the value v.     *)
(* A hit score is an integer number of hundredths (90 is 0.9); a fusion    *)
(* score is an integer number of 1/RrfDen, RrfDen being divisible by every *)
(* rrf_k + rank + 1 that occurs, so both are exact.                        *)
(***************************************************************************)
EXTENDS Integers, Sequences, FiniteSets, TLC

VARIABLES
    pc,                   \* position of the request in chat_with_documents
    messages,             \* request.messages
    user_query,           \* last user message content, or None
    top_k,                \* settings.TOP_K_RESULTS, passed as top_k / top_n
    multi_queries,        \* local of _generate_expanded_queries
    step_back_query,      \* local of _generate_expanded_queries
    hypothetical_answer,  \* local of _generate_expanded_queries
    queries,              \* unique_queries / queries
    query_embeddings,     \* local of _perform_search_and_fusion
    batch_results,        \* local of _perform_search_and_fusion
    doc_keys,             \* insertion order of the dicts doc_scores / doc_objects
    doc_scores,           \* dict hit_id -> accumulated RRF score
    doc_objects,          \* dict hit_id -> first hit seen with that id
    all_hits,             \* fused list returned by _perform_search_and_fusion
    docs_to_rerank,       \* local of _rerank_results
    ranked_indices,       \* value returned by gemini_client.rerank_documents
    final_hits,           \* list returned by _rerank_results
    context,              \* context_parts (joined with a blank line by the code)
    citations,            \* list of SearchResult
    response,             \* outcome of the request: status code and body
    gen_failed,           \* expansion generators whose model call raised
    rerank_outcome,       \* what the scoring call of rerank_documents did
    scoring_response,     \* response of that call, kept where rerank_documents
                          \* runs alone: a local of rerank_documents, or None
    calls,                \* every call made to a collaborator, in order
    inflight,             \* concurrent requests: request id -> its locals
    heap                  \* the ScoredPoint objects of concurrent requests,
                          \* by address

vars == <<pc, messages, user_query, top_k, multi_queries, step_back_query,
          hypothetical_answer, queries, query_embeddings, batch_results,
          doc_keys, doc_scores, doc_objects, all_hits, docs_to_rerank,
          ranked_indices, final_hits, context, citations, response,
          gen_failed, rerank_outcome, scoring_response, calls, inflight, heap>>

----------------------------------------------------------------------------
(* Bounds of the model and constants of the program.                       *)

\* largest top_k a request runs with
MaxTopK == 2
\* most lines in a multi-query model response
MaxLines == 4
\* most hits in one ranked list given to the fusion alone
MaxHits == 2
\* most ranked lists given to the fusion alone
MaxLists == 2
\* most comma-separated fields in a scoring response
MaxFields == 3
\* most (index, score) pairs a substituted scoring collaborator returns
MaxPairs == 2
\* most documents given to rerank_documents alone
MaxDocs == 3

\* rrf_k
RrfK == 60
\* default n of generate_multi_queries
DefaultN == 3
\* the oversampling factor of top_k * 2
Oversample == 2

----------------------------------------------------------------------------
(* Optional values and generic sequence helpers.                           *)

None == <<>>
Some(v) == <<v>>

Min(a, b) == IF a < b THEN a ELSE b

\* s[:n] for n >= 0
Take(s, n) == SubSeq(s, 1, Min(n, Len(s)))

\* sequences over S of length at most n
SeqsUpTo(S, n) == UNION {[1..k -> S] : k \in 0..n}

Range(s) == {s[i] : i \in DOMAIN s}

\* s has no two equal elements
NoDuplicates(s) == \A i, j \in DOMAIN s : s[i] = s[j] => i = j

----------------------------------------------------------------------------
(* Texts.                                                                  *)

Space == " "

RECURSIVE LStrip(_)
LStrip(t) == IF t # <<>> /\ Head(t) = Space THEN LStrip(Tail(t)) ELSE t

RECURSIVE RStrip(_)
RStrip(t) ==
    IF t # <<>> /\ t[Len(t)] = Space THEN RStrip(SubSeq(t, 1, Len(t) - 1)) ELSE t

\* str.strip()
Strip(t) == RStrip(LStrip(t))

\* truth value of a str | None
Truthy(o) == o # None /\ o[1] # <<>>

IsNonEmpty(t) == t # <<>>

----------------------------------------------------------------------------
(* A response of model.generate_content: the call raises (ok is FALSE), or *)
(* returns a text. The text of a multi-query response is given as its      *)
(* lines, i.e. as response.text.split("\n").                               *)

Raises == [ok |-> FALSE]
Returns(t) == [ok |-> TRUE, text |-> t]

\* generate_multi_queries without the cut [:n]
generate_multi_queries_uncut(query, resp, n) ==
    IF resp.ok
    THEN LET stripped == [i \in DOMAIN resp.text |-> Strip(resp.text[i])]
         IN  SelectSeq(stripped, IsNonEmpty)
    ELSE <<query>>

\* GeminiClient.generate_multi_queries
generate_multi_queries(query, resp, n) ==
    IF resp.ok
    THEN LET stripped == [i \in DOMAIN resp.text |-> Strip(resp.text[i])]
         IN  Take(SelectSeq(stripped, IsNonEmpty), n)
    ELSE <<query>>

\* GeminiClient.generate_step_back_query
generate_step_back_query(query, resp) ==
    IF resp.ok
    THEN IF resp.text # <<>> THEN Some(Strip(resp.text)) ELSE None
    ELSE None

\* generate_hypothetical_answer returning the error text when the call raises
hypothetical_answer_or_error(query, resp) ==
    IF resp.ok
    THEN IF resp.text # <<>> THEN Some(Strip(resp.text)) ELSE None
    ELSE Some(<<"e", "r", "r">>)

\* GeminiClient.generate_hypothetical_answer
generate_hypothetical_answer(query, resp) ==
    IF resp.ok
    THEN IF resp.text # <<>> THEN Some(Strip(resp.text)) ELSE None
    ELSE None

\* FromKeys without the deduplication: list(queries)
FromKeysKeepAll(s, acc) == acc \o s

\* list(dict.fromkeys(s)): the first occurrence of every element, in order
RECURSIVE FromKeys(_, _)
FromKeys(s, acc) ==
    IF s = <<>> THEN acc
    ELSE FromKeys(Tail(s),
                  IF Head(s) \in Range(acc) THEN acc ELSE Append(acc, Head(s)))

DictFromKeys(s) == FromKeys(s, <<>>)

\* the list _generate_expanded_queries returns, from what the generators returned
ExpandedQueries(query, multi, step_back, hyde) ==
    DictFromKeys(<<query>> \o multi
                 \o (IF Truthy(step_back) THEN <<step_back[1]>> ELSE <<>>)
                 \o (IF Truthy(hyde) THEN <<hyde[1]>> ELSE <<>>))

----------------------------------------------------------------------------
(* Input sets.                                                             *)

TopKs == 1..MaxTopK

Q == <<"q">>

\* a user question of the expansion alone
UserQueries == {Q, <<"a">>}

\* lines a multi-query response is made of: blank, padded, repeating the
\* question, repeating each other, distinct
RawLines == {<<>>, <<" ">>, <<"q">>, <<"a">>, <<" ", "a">>, <<"b">>, <<"c">>}

MultiResponses ==
    {Raises} \cup {Returns(ls) : ls \in SeqsUpTo(RawLines, MaxLines)}

StepBackResponses ==
    {Raises} \cup {Returns(t) : t \in {<<>>, <<" ">>, <<"q">>, <<"a">>, <<"s", " ">>}}

HydeResponses ==
    {Raises} \cup {Returns(t) : t \in {<<>>, <<"q">>, <<"s">>, <<" ", "h">>}}

\* the smaller sets the whole request runs with
RequestMultiResponses ==
    {Raises} \cup {Returns(ls) : ls \in {<<>>, << <<"a">> >>, << <<"q">>, <<>> >>}}

RequestStepBackResponses == {Raises} \cup {Returns(t) : t \in {<<>>, <<"s">>}}

RequestHydeResponses == {Raises} \cup {Returns(t) : t \in {<<>>, <<"s">>, <<"h">>}}

User(t) == [role |-> "user", content |-> t]
Assistant(t) == [role |-> "assistant", content |-> t]

\* request.messages
Requests ==
    { <<User(Q)>>,
      <<User(<<"p">>), Assistant(<<"r">>), User(Q), Assistant(<<"r">>)>>,
      <<>>,
      <<Assistant(<<"r">>)>>,
      <<User(Q), User(<<>>)>> }

----------------------------------------------------------------------------
(* Hits (qdrant ScoredPoint): id, score, payload. A payload is None or a   *)
(* dict; a dict is a record holding the keys that are present.             *)

HitIds == {"h1", "h2", "h3"}

\* The payload is the index's, the same wherever the hit id is returned:
\* complete, without metadata, and absent.
PayloadOf(id) ==
    CASE id = "h1" -> Some([document_id |-> "d1", content |-> "c1",
                            metadata |-> [source |-> "S1"]])
      [] id = "h2" -> Some([document_id |-> "d2", content |-> "c2"])
      [] OTHER -> None

\* the similarity score the index gives the hit at zero-based position rank
SearchScore(rank) == 90 - 10 * rank

Hit(id, score) == [id |-> id, score |-> score, payload |-> PayloadOf(id)]

\* ranked lists of at most n hits, most similar first; a hit id may recur
RankedLists(n) ==
    UNION {{[i \in 1..k |-> Hit(ids[i], SearchScore(i - 1))] : ids \in [1..k -> HitIds]}
           : k \in 0..n}

\* the ranked lists a whole request is answered with: at most one hit each
RequestRankedLists(limit) == {l \in RankedLists(1) : Len(l) <= limit}

\* the embedding of a text
EmbeddingOf(text) == [embedding_of |-> text]

----------------------------------------------------------------------------
(* Reciprocal Rank Fusion, chat.py 57-77.                                  *)

RECURSIVE Product(_, _)
Product(lo, hi) == IF lo > hi THEN 1 ELSE lo * Product(lo + 1, hi)

\* the unit of fusion scores: every 1/(rrf_k + rank + 1), rank < MaxHits, is
\* a whole number of 1/RrfDen
RrfDen == Product(RrfK + 1, RrfK + MaxHits)

\* 1.0 / (rrf_k + rank + 1)
RrfTerm(rank) == RrfDen \div (RrfK + rank + 1)

NoDocs == [keys |-> <<>>, scores |-> <<>>, objects |-> <<>>]

\* AddHit assigning the term instead of adding it: doc_scores[hit_id] = ...
AddHitAssign(acc, hit, rank) ==
    LET hit_id == hit.id
        seen == hit_id \in Range(acc.keys)
    IN  [keys |-> IF seen THEN acc.keys ELSE Append(acc.keys, hit_id),
         objects |-> IF seen THEN acc.objects ELSE (hit_id :> hit) @@ acc.objects,
         scores |-> (hit_id :> RrfTerm(rank)) @@ acc.scores]

\* AddHit without the test hit_id not in doc_objects: every occurrence is a
\* new candidate
AddHitNoSeenTest(acc, hit, rank) ==
    [keys |-> Append(acc.keys, hit.id),
     objects |-> (hit.id :> hit) @@ acc.objects,
     scores |-> (hit.id :> (IF hit.id \in Range(acc.keys) THEN acc.scores[hit.id] ELSE 0)
                           + RrfTerm(rank)) @@ acc.scores]

\* chat.py 64-69, for the hit at zero-based position rank of a list
AddHit(acc, hit, rank) ==
    LET hit_id == hit.id
        seen == hit_id \in Range(acc.keys)
        objects == IF seen THEN acc.objects ELSE (hit_id :> hit) @@ acc.objects
        scores == IF seen THEN acc.scores ELSE (hit_id :> 0) @@ acc.scores
    IN  [keys |-> IF seen THEN acc.keys ELSE Append(acc.keys, hit_id),
         objects |-> objects,
         scores |-> [scores EXCEPT ![hit_id] = @ + RrfTerm(rank)]]

\* chat.py 63: for rank, hit in enumerate(hits)
RECURSIVE AddList(_, _, _)
AddList(acc, hits, rank) ==
    IF rank >= Len(hits) THEN acc
    ELSE AddList(AddHit(acc, hits[rank + 1], rank), hits, rank + 1)

\* chat.py 62: for _, hits in enumerate(batch_results)
RECURSIVE AddLists(_, _)
AddLists(acc, lists) ==
    IF lists = <<>> THEN acc
    ELSE AddLists(AddList(acc, Head(lists), 0), Tail(lists))

\* InsertByScore placing a key before the keys of equal score: a sort that
\* is not stable under reverse=True
RECURSIVE InsertByScoreTiesReversed(_, _, _)
InsertByScoreTiesReversed(sorted, k, scores) ==
    IF sorted = <<>> THEN <<k>>
    ELSE IF scores[Head(sorted)] > scores[k]
         THEN <<Head(sorted)>> \o InsertByScoreTiesReversed(Tail(sorted), k, scores)
         ELSE <<k>> \o sorted

\* the place of key k in a list sorted by descending score: after every key
\* whose score is not smaller (sorted() is stable, also with reverse=True)
RECURSIVE InsertByScore(_, _, _)
InsertByScore(sorted, k, scores) ==
    IF sorted = <<>> THEN <<k>>
    ELSE IF scores[Head(sorted)] >= scores[k]
         THEN <<Head(sorted)>> \o InsertByScore(Tail(sorted), k, scores)
         ELSE <<k>> \o sorted

\* sorted(doc_scores.keys(), key=lambda x: doc_scores[x], reverse=True)
RECURSIVE SortedDocIds(_, _)
SortedDocIds(keys, scores) ==
    IF keys = <<>> THEN <<>>
    ELSE InsertByScore(SortedDocIds(SubSeq(keys, 1, Len(keys) - 1), scores),
                       keys[Len(keys)], scores)

\* FusedHits cut to top_k, not to the oversample limit
FusedHitsCutToTopK(acc, k) ==
    LET sorted_doc_ids == Take(SortedDocIds(acc.keys, acc.scores), k)
    IN  [i \in DOMAIN sorted_doc_ids |-> acc.objects[sorted_doc_ids[i]]]

\* FusedHits without the cut of chat.py 77
FusedHitsUncut(acc, k) ==
    LET sorted_doc_ids == SortedDocIds(acc.keys, acc.scores)
    IN  [i \in DOMAIN sorted_doc_ids |-> acc.objects[sorted_doc_ids[i]]]

\* FusedHits storing the fusion score in the hit returned: hit.score = doc_scores[id]
FusedHitsScored(acc, k) ==
    LET sorted_doc_ids == Take(SortedDocIds(acc.keys, acc.scores), k * Oversample)
    IN  [i \in DOMAIN sorted_doc_ids |->
            [acc.objects[sorted_doc_ids[i]] EXCEPT !.score = acc.scores[sorted_doc_ids[i]]]]

\* chat.py 77
FusedHits(acc, k) ==
    LET sorted_doc_ids == Take(SortedDocIds(acc.keys, acc.scores), k * Oversample)
    IN  [i \in DOMAIN sorted_doc_ids |-> acc.objects[sorted_doc_ids[i]]]

----------------------------------------------------------------------------
(* Re-ranking: GeminiClient.rerank_documents and _rerank_results.          *)
(* A scoring response is given as its comma-separated fields,              *)
(* text.split(","); a field, stripped and without brackets, is empty, or   *)
(* a number float() parses, or something float() raises ValueError on.     *)
(* A ranked pair is <<index, score>>, the index zero-based as in the code. *)

Blank == [kind |-> "blank"]
Junk == [kind |-> "junk"]
Num(v) == [kind |-> "num", val |-> v]

ScoreFields == {Blank, Junk, Num(10), Num(90)}

ScoringResponses ==
    {Raises} \cup {Returns(fs) : fs \in SeqsUpTo(ScoreFields, MaxFields)}

\* gemini_client.py 168-173: the scores parsed; raises ValueError on a field
\* float() does not parse
ParseRaises(fields) == \E i \in DOMAIN fields : fields[i].kind = "junk"

IsNum(f) == f.kind = "num"

ParsedScores(fields) ==
    LET nums == SelectSeq(fields, IsNum) IN [i \in DOMAIN nums |-> nums[i].val]

\* the place of pair p in a list sorted by descending score (stable)
RECURSIVE InsertPair(_, _)
InsertPair(sorted, p) ==
    IF sorted = <<>> THEN <<p>>
    ELSE IF Head(sorted)[2] >= p[2]
         THEN <<Head(sorted)>> \o InsertPair(Tail(sorted), p)
         ELSE <<p>> \o sorted

\* SortPairs leaving the pairs in document order: the sort forgotten
SortPairsUnsorted(ps) == ps

\* ranked_results.sort(key=lambda x: x[1], reverse=True)
RECURSIVE SortPairs(_)
SortPairs(ps) ==
    IF ps = <<>> THEN <<>>
    ELSE InsertPair(SortPairs(SubSeq(ps, 1, Len(ps) - 1)), ps[Len(ps)])

\* gemini_client.py 188: [(i, 1.0 - (i * 0.01)) for i in range(len(documents))]
PositionalPairs(n) == [i \in 1..n |-> <<i - 1, 100 - (i - 1)>>]

\* gemini_client.py 193: [(i, 1.0) for i in range(len(documents))]
DefaultPairs(n) == [i \in 1..n |-> <<i - 1, 100>>]

\* ScoredPairs giving the documents the model left unscored the score 0
ScoredPairsPadded(scores, n, top_n) ==
    Take(SortPairs([i \in 1..n |->
                       <<i - 1, IF i <= Len(scores) THEN scores[i] ELSE 0>>]), top_n)

\* ScoredPairs cutting to top_n before sorting
ScoredPairsCutBeforeSort(scores, n, top_n) ==
    SortPairs(Take([i \in 1..Min(Len(scores), n) |-> <<i - 1, scores[i]>>], top_n))

\* gemini_client.py 176-183
ScoredPairs(scores, n, top_n) ==
    Take(SortPairs([i \in 1..Min(Len(scores), n) |-> <<i - 1, scores[i]>>]), top_n)

\* rerank_documents without the [:top_n] of its two fallbacks
rerank_documents_fallback_untruncated(query, documents, top_n, resp) ==
    IF documents = <<>> THEN <<>>
    ELSE IF ~resp.ok THEN DefaultPairs(Len(documents))
    ELSE IF ParseRaises(resp.text) THEN PositionalPairs(Len(documents))
    ELSE ScoredPairs(ParsedScores(resp.text), Len(documents), top_n)

\* rerank_documents without the inner handler of ValueError: the outer
\* handler of gemini_client.py 190 takes the parse failure
rerank_documents_value_error_outer(query, documents, top_n, resp) ==
    IF documents = <<>> THEN <<>>
    ELSE IF ~resp.ok THEN Take(DefaultPairs(Len(documents)), top_n)
    ELSE IF ParseRaises(resp.text) THEN Take(DefaultPairs(Len(documents)), top_n)
    ELSE ScoredPairs(ParsedScores(resp.text), Len(documents), top_n)

\* GeminiClient.rerank_documents, resp being the model's scoring response
rerank_documents(query, documents, top_n, resp) ==
    IF documents = <<>> THEN <<>>
    ELSE IF ~resp.ok THEN Take(DefaultPairs(Len(documents)), top_n)
    ELSE IF ParseRaises(resp.text) THEN Take(PositionalPairs(Len(documents)), top_n)
    ELSE ScoredPairs(ParsedScores(resp.text), Len(documents), top_n)

RerankOutcome(resp) ==
    IF ~resp.ok THEN "failed"
    ELSE IF ParseRaises(resp.text) THEN "unparseable" ELSE "scored"

\* truth value of hit.payload: neither None nor an empty dict
HasPayload(hit) == hit.payload # None /\ DOMAIN hit.payload[1] # {}

\* payload.get(key, default)
Get(dict, key, default) == IF key \in DOMAIN dict THEN dict[key] ELSE default

\* chat.py 87-89
DocsToRerank(hits) ==
    LET with_payload == SelectSeq(hits, HasPayload)
    IN  [i \in DOMAIN with_payload |-> Get(with_payload[i].payload[1], "content", "")]

\* chat.py 101-106 for one pair: st.hits are the hit objects, st.picked the
\* positions of the objects appended to final_hits, st.raised an IndexError.
\* hits[idx] with a negative idx counts from the end of the list.
SelectPair(st, pair) ==
    LET idx == pair[1]
        n == Len(st.hits)
        pos == IF idx >= 0 THEN idx + 1 ELSE n + idx + 1
    IN  IF st.raised \/ ~(idx < n) THEN st
        ELSE IF pos < 1 THEN [st EXCEPT !.raised = TRUE]
        ELSE [st EXCEPT !.hits[pos].score = pair[2],
                        !.picked = Append(@, pos)]

\* chat.py 100-108
RECURSIVE SelectLoop(_, _)
SelectLoop(st, pairs) ==
    IF pairs = <<>> THEN st
    ELSE SelectLoop(SelectPair(st, Head(pairs)), Tail(pairs))

SelectedHits(hits, pairs) ==
    SelectLoop([hits |-> hits, picked |-> <<>>, raised |-> FALSE], pairs)

----------------------------------------------------------------------------
(* Context and citations, chat.py 139-161, and models/api.py SearchResult. *)

\* SearchResult(...) validates its fields: document_id and content are required
SearchResultRaises(hit) ==
    LET payload == IF hit.payload = None THEN <<>> ELSE hit.payload[1]
    IN  "document_id" \notin DOMAIN payload \/ "content" \notin DOMAIN payload

SourceOf(hit) ==
    LET payload == IF hit.payload = None THEN <<>> ELSE hit.payload[1]
    IN  Get(Get(payload, "metadata", <<>>), "source", "Unknown")

\* chat.py 148
ContextPart(hit) ==
    [source |-> SourceOf(hit), content |-> hit.payload[1].content]

\* chat.py 150-159
Citation(hit) ==
    [document_id |-> hit.payload[1].document_id,
     chunk_id |-> hit.id,
     content |-> hit.payload[1].content,
     score |-> hit.score,
     metadata |-> Get(hit.payload[1], "metadata", None),
     filename |-> SourceOf(hit)]

----------------------------------------------------------------------------
(* The request: chat_with_documents and the helpers it awaits.             *)

\* a call of a collaborator and whether it raised
Call(fn, args) == [fn |-> fn, args |-> args, raised |-> FALSE]
RaisedCall(fn, args) == [fn |-> fn, args |-> args, raised |-> TRUE]

CallsOf(fn) == SelectSeq(calls, LAMBDA c : c.fn = fn)

Pending == [status |-> 0]

\* except Exception as e: raise HTTPException(status_code=500, detail=str(e))
Handler(exc) == [status |-> 500, detail |-> exc]

\* an HTTPException raised in the try block is an Exception: the handler gets it
HTTPException(code, detail) == Handler(<<code, detail>>)

expandVars == <<multi_queries, step_back_query, hypothetical_answer, gen_failed>>
searchVars == <<query_embeddings, batch_results>>
fusionVars == <<doc_keys, doc_scores, doc_objects>>
rerankVars == <<docs_to_rerank, ranked_indices, rerank_outcome, scoring_response>>
concVars   == <<inflight, heap>>
outVars    == <<context, citations, response>>

\* the state before any step of a request, but for pc, messages, user_query, top_k
Fresh ==
    /\ multi_queries = <<>> /\ step_back_query = None /\ hypothetical_answer = None
    /\ queries = <<>> /\ query_embeddings = <<>> /\ batch_results = <<>>
    /\ doc_keys = <<>> /\ doc_scores = <<>> /\ doc_objects = <<>>
    /\ all_hits = <<>> /\ docs_to_rerank = <<>> /\ ranked_indices = <<>>
    /\ final_hits = <<>> /\ context = <<>> /\ citations = <<>>
    /\ response = Pending /\ gen_failed = {} /\ rerank_outcome = "none"
    /\ scoring_response = None
    /\ inflight = <<>> /\ heap = <<>>
    /\ calls = <<>>

\* next((m.content for m in reversed(request.messages) if m.role == "user"), None)
RECURSIVE LastUserContent(_)
LastUserContent(ms) ==
    IF ms = <<>> THEN None
    ELSE IF ms[Len(ms)].role = "user" THEN Some(ms[Len(ms)].content)
    ELSE LastUserContent(SubSeq(ms, 1, Len(ms) - 1))

\* chat.py 118-123
GetUserQuery ==
    /\ pc = "start"
    /\ user_query' = LastUserContent(messages)
    /\ IF Truthy(user_query')
       THEN pc' = "multi" /\ response' = response
       ELSE pc' = "done" /\ response' = HTTPException(400, "No user message found")
    /\ UNCHANGED <<concVars, messages, top_k, expandVars, queries, searchVars, fusionVars,
                   all_hits, rerankVars, final_hits, context, citations, calls>>

\* chat.py 22-23, with the model's response to the multi-query prompt
MultiQueriesReturn(resp) ==
    /\ pc = "multi"
    /\ multi_queries' = generate_multi_queries(user_query[1], resp, DefaultN)
    /\ gen_failed' = IF resp.ok THEN gen_failed ELSE gen_failed \cup {"multi"}
    /\ calls' = Append(calls, Call("generate_multi_queries", <<user_query[1]>>))
    /\ pc' = "step_back"
    /\ UNCHANGED <<concVars, messages, user_query, top_k, step_back_query, hypothetical_answer,
                   queries, searchVars, fusionVars, all_hits, rerankVars, final_hits,
                   outVars>>

\* chat.py 26-28
StepBackReturn(resp) ==
    /\ pc = "step_back"
    /\ step_back_query' = generate_step_back_query(user_query[1], resp)
    /\ gen_failed' = IF resp.ok THEN gen_failed ELSE gen_failed \cup {"step_back"}
    /\ calls' = Append(calls, Call("generate_step_back_query", <<user_query[1]>>))
    /\ pc' = "hyde"
    /\ UNCHANGED <<concVars, messages, user_query, top_k, multi_queries, hypothetical_answer,
                   queries, searchVars, fusionVars, all_hits, rerankVars, final_hits,
                   outVars>>

\* chat.py 31-36: the last generator returns and the function returns the
\* deduplicated list
HydeReturn(resp) ==
    /\ pc = "hyde"
    /\ hypothetical_answer' = generate_hypothetical_answer(user_query[1], resp)
    /\ gen_failed' = IF resp.ok THEN gen_failed ELSE gen_failed \cup {"hyde"}
    /\ calls' = Append(calls, Call("generate_hypothetical_answer", <<user_query[1]>>))
    /\ queries' = ExpandedQueries(user_query[1], multi_queries, step_back_query,
                                  hypothetical_answer')
    /\ pc' = "embed"
    /\ UNCHANGED <<concVars, messages, user_query, top_k, multi_queries, step_back_query,
                   searchVars, fusionVars, all_hits, rerankVars, final_hits, outVars>>

\* chat.py 48-50: one query embedded; the locals of the expansion are gone
EmbedQuery ==
    /\ pc = "embed"
    /\ Len(query_embeddings) < Len(queries)
    /\ LET query == queries[Len(query_embeddings) + 1]
       IN  /\ query_embeddings' = Append(query_embeddings, EmbeddingOf(query))
           /\ calls' = Append(calls, Call("get_query_embedding", <<query>>))
    /\ multi_queries' = <<>> /\ step_back_query' = None /\ hypothetical_answer' = None
    /\ UNCHANGED <<concVars, pc, messages, user_query, top_k, gen_failed, queries, batch_results,
                   fusionVars, all_hits, rerankVars, final_hits, outVars>>

\* EmbedRaises with the exception swallowed: the loop goes on without the vector
EmbedRaisesSwallowed ==
    /\ pc = "embed"
    /\ Len(query_embeddings) < Len(queries)
    /\ calls' = Append(calls, RaisedCall("get_query_embedding",
                                         <<queries[Len(query_embeddings) + 1]>>))
    /\ query_embeddings' = Append(query_embeddings, None)
    /\ multi_queries' = <<>> /\ step_back_query' = None /\ hypothetical_answer' = None
    /\ UNCHANGED <<concVars, pc, messages, user_query, top_k, gen_failed, queries, batch_results,
                   fusionVars, all_hits, rerankVars, final_hits, outVars>>

\* chat.py 49 raising (gemini_client.py 34-36), caught at chat.py 176
EmbedRaises ==
    /\ pc = "embed"
    /\ Len(query_embeddings) < Len(queries)
    /\ calls' = Append(calls, RaisedCall("get_query_embedding",
                                   <<queries[Len(query_embeddings) + 1]>>))
    /\ multi_queries' = <<>> /\ step_back_query' = None /\ hypothetical_answer' = None
    /\ response' = Handler("embedding failed")
    /\ pc' = "done"
    /\ UNCHANGED <<concVars, messages, user_query, top_k, gen_failed, queries, searchVars,
                   fusionVars, all_hits, rerankVars, final_hits, context, citations>>

\* SearchBatch issued as soon as one vector is there, not after the last
SearchBatchEarly ==
    /\ pc = "embed"
    /\ Len(query_embeddings) >= 1
    /\ LET limit == top_k * Oversample
       IN  /\ calls' = Append(calls, Call("search_batch", <<query_embeddings, limit>>))
           /\ batch_results' \in [DOMAIN query_embeddings -> RequestRankedLists(limit)]
    /\ pc' = "fusion"
    /\ UNCHANGED <<concVars, messages, user_query, top_k, expandVars, queries, query_embeddings,
                   fusionVars, all_hits, rerankVars, final_hits, outVars>>

\* chat.py 53-55: the batched search returns one ranked list per vector
SearchBatch ==
    /\ pc = "embed"
    /\ Len(query_embeddings) = Len(queries)
    /\ LET limit == top_k * Oversample
       IN  /\ calls' = Append(calls, Call("search_batch", <<query_embeddings, limit>>))
           /\ batch_results' \in [DOMAIN query_embeddings -> RequestRankedLists(limit)]
    /\ pc' = "fusion"
    /\ UNCHANGED <<concVars, messages, user_query, top_k, expandVars, queries, query_embeddings,
                   fusionVars, all_hits, rerankVars, final_hits, outVars>>

\* chat.py 53 raising (vector_store.py 142-144), caught at chat.py 176
SearchRaises ==
    /\ pc = "embed"
    /\ Len(query_embeddings) = Len(queries)
    /\ calls' = Append(calls, RaisedCall("search_batch",
                                   <<query_embeddings, top_k * Oversample>>))
    /\ response' = Handler("search failed")
    /\ pc' = "done"
    /\ UNCHANGED <<concVars, messages, user_query, top_k, expandVars, queries, searchVars,
                   fusionVars, all_hits, rerankVars, final_hits, context, citations>>

\* chat.py 57-77
Fusion ==
    /\ pc = "fusion"
    /\ LET acc == AddLists(NoDocs, batch_results)
       IN  /\ doc_keys' = acc.keys
           /\ doc_scores' = acc.scores
           /\ doc_objects' = acc.objects
           /\ all_hits' = FusedHits(acc, top_k)
    /\ pc' = "rerank"
    /\ UNCHANGED <<concVars, messages, user_query, top_k, expandVars, queries, searchVars,
                   rerankVars, final_hits, outVars, calls>>

\* RerankDocuments without the early return of chat.py 91-92
RerankDocumentsNoEarlyReturn ==
    /\ pc = "rerank"
    /\ docs_to_rerank' = DocsToRerank(all_hits)
    /\ \E resp \in ScoringResponses :
          /\ ranked_indices' =
                 rerank_documents(user_query[1], docs_to_rerank', top_k, resp)
          /\ rerank_outcome' = RerankOutcome(resp)
    /\ calls' = Append(calls, Call("rerank_documents",
                                   <<user_query[1], docs_to_rerank', top_k>>))
    /\ pc' = "select"
    /\ UNCHANGED final_hits
    /\ query_embeddings' = <<>> /\ batch_results' = <<>>
    /\ doc_keys' = <<>> /\ doc_scores' = <<>> /\ doc_objects' = <<>>
    /\ UNCHANGED <<concVars, messages, user_query, top_k, expandVars, queries, all_hits, outVars,
                   scoring_response>>

\* chat.py 87-97: nothing to re-rank, or the scoring call and what
\* rerank_documents makes of the model's response; the locals of
\* _perform_search_and_fusion are gone
RerankDocuments ==
    /\ pc = "rerank"
    /\ docs_to_rerank' = DocsToRerank(all_hits)
    /\ IF docs_to_rerank' = <<>>
       THEN /\ final_hits' = <<>>
            /\ pc' = "assemble"
            /\ UNCHANGED <<ranked_indices, rerank_outcome, calls>>
       ELSE /\ \E resp \in ScoringResponses :
                 /\ ranked_indices' =
                        rerank_documents(user_query[1], docs_to_rerank', top_k, resp)
                 /\ rerank_outcome' = RerankOutcome(resp)
            /\ calls' = Append(calls, Call("rerank_documents",
                                           <<user_query[1], docs_to_rerank', top_k>>))
            /\ pc' = "select"
            /\ UNCHANGED final_hits
    /\ query_embeddings' = <<>> /\ batch_results' = <<>>
    /\ doc_keys' = <<>> /\ doc_scores' = <<>> /\ doc_objects' = <<>>
    /\ UNCHANGED <<concVars, messages, user_query, top_k, expandVars, queries, all_hits, outVars,
                   scoring_response>>

\* chat.py 99-108; an IndexError is caught at chat.py 176
SelectHits ==
    /\ pc = "select"
    /\ LET st == SelectedHits(all_hits, ranked_indices)
       IN  IF st.raised
           THEN /\ all_hits' = st.hits
                /\ response' = Handler("IndexError")
                /\ pc' = "done"
                /\ UNCHANGED final_hits
           ELSE /\ all_hits' = st.hits
                /\ final_hits' = [i \in DOMAIN st.picked |-> st.hits[st.picked[i]]]
                /\ pc' = "assemble"
                /\ UNCHANGED response
    /\ UNCHANGED <<concVars, messages, user_query, top_k, expandVars, queries, searchVars,
                   fusionVars, rerankVars, context, citations, calls>>

\* Assemble answering without the answer generator when nothing was retrieved
AssembleSkipsEmpty ==
    /\ pc = "assemble"
    /\ IF final_hits = <<>>
       THEN /\ response' = [status |-> 200, response |-> "no documents",
                            citations |-> <<>>]
            /\ pc' = "done"
            /\ UNCHANGED <<context, citations>>
       ELSE IF \E i \in DOMAIN final_hits : SearchResultRaises(final_hits[i])
       THEN /\ response' = Handler("ValidationError")
            /\ pc' = "done"
            /\ UNCHANGED <<context, citations>>
       ELSE /\ context' = [i \in DOMAIN final_hits |-> ContextPart(final_hits[i])]
            /\ citations' = [i \in DOMAIN final_hits |-> Citation(final_hits[i])]
            /\ pc' = "generate"
            /\ UNCHANGED response
    /\ UNCHANGED <<concVars, messages, user_query, top_k, expandVars, queries, searchVars,
                   fusionVars, all_hits, rerankVars, final_hits, calls>>

\* chat.py 139-161; a validation error of SearchResult is caught at chat.py 176
Assemble ==
    /\ pc = "assemble"
    /\ IF \E i \in DOMAIN final_hits : SearchResultRaises(final_hits[i])
       THEN /\ response' = Handler("ValidationError")
            /\ pc' = "done"
            /\ UNCHANGED <<context, citations>>
       ELSE /\ context' = [i \in DOMAIN final_hits |-> ContextPart(final_hits[i])]
            /\ citations' = [i \in DOMAIN final_hits |-> Citation(final_hits[i])]
            /\ pc' = "generate"
            /\ UNCHANGED response
    /\ UNCHANGED <<concVars, messages, user_query, top_k, expandVars, queries, searchVars,
                   fusionVars, all_hits, rerankVars, final_hits, calls>>

\* GenerateContent prompting with the last expanded query instead of the question
GenerateContentLastQuery ==
    /\ pc = "generate"
    /\ calls' = Append(calls, Call("generate_content",
                                   <<queries[Len(queries)], context>>))
    /\ response' = [status |-> 200, response |-> "answer", citations |-> citations]
    /\ pc' = "done"
    /\ UNCHANGED <<concVars, messages, user_query, top_k, expandVars, queries, searchVars,
                   fusionVars, all_hits, rerankVars, final_hits, context, citations>>

\* chat.py 164-174
GenerateContent ==
    /\ pc = "generate"
    /\ calls' = Append(calls, Call("generate_content", <<user_query[1], context>>))
    /\ response' = [status |-> 200, response |-> "answer", citations |-> citations]
    /\ pc' = "done"
    /\ UNCHANGED <<concVars, messages, user_query, top_k, expandVars, queries, searchVars,
                   fusionVars, all_hits, rerankVars, final_hits, context, citations>>

\* GenerateRaises answering with an apology and the citations instead of failing
GenerateRaisesApologises ==
    /\ pc = "generate"
    /\ calls' = Append(calls, RaisedCall("generate_content", <<user_query[1], context>>))
    /\ response' = [status |-> 200, response |-> "sorry", citations |-> citations]
    /\ pc' = "done"
    /\ UNCHANGED <<concVars, messages, user_query, top_k, expandVars, queries, searchVars,
                   fusionVars, all_hits, rerankVars, final_hits, context, citations>>

\* chat.py 164 raising (gemini_client.py 53-55), caught at chat.py 176
GenerateRaises ==
    /\ pc = "generate"
    /\ calls' = Append(calls, RaisedCall("generate_content", <<user_query[1], context>>))
    /\ response' = Handler("generation failed")
    /\ pc' = "done"
    /\ UNCHANGED <<concVars, messages, user_query, top_k, expandVars, queries, searchVars,
                   fusionVars, all_hits, rerankVars, final_hits, context, citations>>

\* the generators of a whole request
GenerateMultiQueries == \E resp \in RequestMultiResponses : MultiQueriesReturn(resp)
GenerateStepBackQuery == \E resp \in RequestStepBackResponses : StepBackReturn(resp)
GenerateHypotheticalAnswer == \E resp \in RequestHydeResponses : HydeReturn(resp)

Init ==
    /\ pc = "start"
    /\ messages \in Requests
    /\ user_query = None
    /\ top_k \in TopKs
    /\ Fresh

Next ==
    \/ GetUserQuery
    \/ GenerateMultiQueries
    \/ GenerateStepBackQuery
    \/ GenerateHypotheticalAnswer
    \/ EmbedQuery
    \/ EmbedRaises
    \/ SearchBatch
    \/ SearchRaises
    \/ Fusion
    \/ RerankDocuments
    \/ SelectHits
    \/ Assemble
    \/ GenerateContent
    \/ GenerateRaises

Spec == Init /\ [][Next]_vars

\* the expansion alone, over every response of the three generators
ExpandMultiQueries == \E resp \in MultiResponses : MultiQueriesReturn(resp)
ExpandStepBack == \E resp \in StepBackResponses : StepBackReturn(resp)
ExpandHyde == \E resp \in HydeResponses : HydeReturn(resp)

InitExpand ==
    /\ pc = "multi"
    /\ messages = <<>>
    /\ user_query \in {Some(q) : q \in UserQueries}
    /\ top_k = 1
    /\ Fresh

NextExpand == ExpandMultiQueries \/ ExpandStepBack \/ ExpandHyde

SpecExpand == InitExpand /\ [][NextExpand]_vars

----------------------------------------------------------------------------
(* The fusion alone: the request at chat.py 57, over every list of ranked  *)
(* lists the batched search may have returned for its queries (each list   *)
(* within the limit asked for). The calls made before are not recorded.    *)

\* n distinct queries, the question first
FusionQueries(n) == [i \in 1..n |-> IF i = 1 THEN Q ELSE [j \in 1..i |-> "a"]]

InitFuse ==
    /\ pc = "fusion"
    /\ messages = <<User(Q)>>
    /\ user_query = Some(Q)
    /\ top_k \in TopKs
    /\ multi_queries = <<>> /\ step_back_query = None /\ hypothetical_answer = None
    /\ \E n \in 1..MaxLists :
         /\ queries = FusionQueries(n)
         /\ query_embeddings = [i \in 1..n |-> EmbeddingOf(queries[i])]
         /\ batch_results \in [1..n -> RankedLists(Min(MaxHits, top_k * Oversample))]
    /\ doc_keys = <<>> /\ doc_scores = <<>> /\ doc_objects = <<>>
    /\ all_hits = <<>> /\ docs_to_rerank = <<>> /\ ranked_indices = <<>>
    /\ final_hits = <<>> /\ context = <<>> /\ citations = <<>>
    /\ response = Pending /\ gen_failed = {} /\ rerank_outcome = "none"
    /\ scoring_response = None
    /\ inflight = <<>> /\ heap = <<>>
    /\ calls = <<>>

NextFuse == Fusion

SpecFuse == InitFuse /\ [][NextFuse]_vars

----------------------------------------------------------------------------
(* _rerank_results alone, chat.py 99-108, with the scoring collaborator    *)
(* substituted (gemini_client is an injected dependency, chat.py 114): the *)
(* request at chat.py 99, over every fused list with something to re-rank  *)
(* and every list of pairs the collaborator may have returned.             *)

\* lists of hits with distinct ids
FusedLists ==
    {l \in SeqsUpTo({Hit(id, SearchScore(0)) : id \in HitIds}, Cardinality(HitIds)) :
        NoDuplicates(l)}

\* indices in and out of the range of every fused list, on both sides
PairIndices == (0 - Cardinality(HitIds) - 1) .. Cardinality(HitIds)

RankedPairs == PairIndices \X {10, 90}

InitRerank ==
    /\ pc = "select"
    /\ messages = <<User(Q)>>
    /\ user_query = Some(Q)
    /\ top_k = MaxTopK
    /\ multi_queries = <<>> /\ step_back_query = None /\ hypothetical_answer = None
    /\ queries = <<Q>>
    /\ query_embeddings = <<>> /\ batch_results = <<>>
    /\ doc_keys = <<>> /\ doc_scores = <<>> /\ doc_objects = <<>>
    /\ all_hits \in FusedLists
    /\ docs_to_rerank = DocsToRerank(all_hits)
    /\ docs_to_rerank # <<>>
    /\ ranked_indices \in SeqsUpTo(RankedPairs, MaxPairs)
    /\ final_hits = <<>> /\ context = <<>> /\ citations = <<>>
    /\ response = Pending /\ gen_failed = {} /\ rerank_outcome = "substituted"
    /\ scoring_response = None
    /\ inflight = <<>> /\ heap = <<>>
    /\ calls = <<>>

NextRerank == SelectHits

SpecRerank == InitRerank /\ [][NextRerank]_vars

----------------------------------------------------------------------------
(* rerank_documents alone, gemini_client.py 130-193: the call of chat.py   *)
(* 95-97 over every list of documents, every top_n and every scoring       *)
(* response of the model. The response stays in the state.                 *)

\* contents of documents, possibly equal
Contents == {"c1", "c2"}

InitScore ==
    /\ pc = "score"
    /\ messages = <<User(Q)>>
    /\ user_query = Some(Q)
    /\ top_k \in TopKs
    /\ multi_queries = <<>> /\ step_back_query = None /\ hypothetical_answer = None
    /\ queries = <<Q>>
    /\ query_embeddings = <<>> /\ batch_results = <<>>
    /\ doc_keys = <<>> /\ doc_scores = <<>> /\ doc_objects = <<>>
    /\ all_hits = <<>>
    /\ docs_to_rerank \in SeqsUpTo(Contents, MaxDocs)
    /\ ranked_indices = <<>>
    /\ final_hits = <<>> /\ context = <<>> /\ citations = <<>>
    /\ response = Pending /\ gen_failed = {} /\ rerank_outcome = "none"
    /\ scoring_response = None
    /\ inflight = <<>> /\ heap = <<>>
    /\ calls = <<>>

\* gemini_client.py 138-193: no document and no call of the model, or the
\* call of the model and what is made of its response
ScoreDocuments ==
    /\ pc = "score"
    /\ IF docs_to_rerank = <<>>
       THEN /\ ranked_indices' = <<>>
            /\ UNCHANGED <<rerank_outcome, scoring_response>>
       ELSE \E resp \in ScoringResponses :
                /\ ranked_indices' =
                       rerank_documents(user_query[1], docs_to_rerank, top_k, resp)
                /\ rerank_outcome' = RerankOutcome(resp)
                /\ scoring_response' = Some(resp)
    /\ pc' = "returned"
    /\ UNCHANGED <<concVars, messages, user_query, top_k, expandVars, queries, searchVars,
                   fusionVars, all_hits, docs_to_rerank, final_hits, outVars, calls>>

NextScore == ScoreDocuments

SpecScore == InitScore /\ [][NextScore]_vars

----------------------------------------------------------------------------
(* Two requests in flight at once: chat_with_documents run for each, the   *)
(* steps of the two interleaved at the awaited calls of collaborators.     *)
(* Between two awaits a request runs undisturbed, so an action is the      *)
(* return of one awaited call and the code up to the next await. The       *)
(* locals of a request are its record in inflight; the ScoredPoint objects *)
(* the search returned live in heap and the lists of a request hold their  *)
(* addresses, so that hit.score = score is an update of the object.        *)
(* settings.TOP_K_RESULTS is read by both. The other variables stay as     *)
(* they are.                                                               *)

RequestIds == {1, 2}

\* the question of request r
ConcQuestion(r) == IF r = 1 THEN Q ELSE <<"a">>

ConcMultiResponses == {Raises, Returns(<< <<"b">> >>)}

ConcStepBackResponses == {Raises}

ConcHydeResponses == {Raises}

\* the ranked lists one search is answered with: at most one hit each, with
\* or without payload
ConcRankedLists ==
    {l \in RankedLists(1) : \A i \in DOMAIN l : l[i].id \in {"h1", "h3"}}

ConcScoringResponses == {Raises, Returns(<<Num(10)>>), Returns(<<Num(90)>>)}

\* the locals of a request that has just come in
NewRequest(question) ==
    [pc |-> "start", question |-> question, user_query |-> None,
     multi_queries |-> <<>>, step_back_query |-> None, hypothetical_answer |-> None,
     queries |-> <<>>, query_embeddings |-> <<>>,
     lists |-> None, all_hits |-> <<>>, docs_to_rerank |-> <<>>,
     scoring |-> None, ranked_indices |-> <<>>, final_hits |-> <<>>,
     context |-> <<>>, citations |-> <<>>, response |-> Pending]

\* ObjectAddress with one object per hit id for all responses: points kept
\* in a cache that the requests share
ObjectAddressCached(r, l, p, id) == id

\* the address of the object made for the hit at position p of list l of the
\* search response of request r: every response is parsed into objects of
\* its own
ObjectAddress(r, l, p, id) == <<r, l, p>>

\* the objects at the addresses refs
Deref(h, refs) == [i \in DOMAIN refs |-> h[refs[i]]]

\* a hit object as the fusion sees it: its id, and which object it is
Handle(h, ref) == [id |-> h[ref].id, ref |-> ref]

\* chat.py 139-161 for the final hits (objects) of a request
Assembled(req, hits) ==
    IF \E i \in DOMAIN hits : SearchResultRaises(hits[i])
    THEN [req EXCEPT !.response = Handler("ValidationError"), !.pc = "done"]
    ELSE [req EXCEPT !.context = [i \in DOMAIN hits |-> ContextPart(hits[i])],
                     !.citations = [i \in DOMAIN hits |-> Citation(hits[i])],
                     !.pc = "generate"]

InitConc ==
    /\ pc = "idle"
    /\ messages = <<>>
    /\ user_query = None
    /\ top_k \in TopKs
    /\ multi_queries = <<>> /\ step_back_query = None /\ hypothetical_answer = None
    /\ queries = <<>> /\ query_embeddings = <<>> /\ batch_results = <<>>
    /\ doc_keys = <<>> /\ doc_scores = <<>> /\ doc_objects = <<>>
    /\ all_hits = <<>> /\ docs_to_rerank = <<>> /\ ranked_indices = <<>>
    /\ final_hits = <<>> /\ context = <<>> /\ citations = <<>>
    /\ response = Pending /\ gen_failed = {} /\ rerank_outcome = "none"
    /\ scoring_response = None
    /\ calls = <<>>
    /\ inflight = [r \in RequestIds |-> NewRequest(ConcQuestion(r))]
    /\ heap = <<>>

seqVars ==
    <<pc, messages, user_query, top_k, expandVars, queries, searchVars, fusionVars,
      all_hits, rerankVars, final_hits, outVars, calls>>

\* chat.py 118-126, up to the await of generate_multi_queries (the requests
\* have a question)
ConcStart(r) ==
    /\ inflight[r].pc = "start"
    /\ inflight' = [inflight EXCEPT ![r].user_query = Some(inflight[r].question),
                                    ![r].pc = "multi"]
    /\ UNCHANGED <<seqVars, heap>>

\* chat.py 21-23
ConcMultiReturns(r, resp) ==
    /\ inflight[r].pc = "multi"
    /\ inflight' = [inflight EXCEPT
          ![r].multi_queries =
              generate_multi_queries(inflight[r].user_query[1], resp, DefaultN),
          ![r].pc = "step_back"]
    /\ UNCHANGED <<seqVars, heap>>

\* chat.py 26-28
ConcStepBackReturns(r, resp) ==
    /\ inflight[r].pc = "step_back"
    /\ inflight' = [inflight EXCEPT
          ![r].step_back_query =
              generate_step_back_query(inflight[r].user_query[1], resp),
          ![r].pc = "hyde"]
    /\ UNCHANGED <<seqVars, heap>>

\* chat.py 31-36 and 46-49, up to the await of the first embedding
ConcHydeReturns(r, resp) ==
    /\ inflight[r].pc = "hyde"
    /\ LET req == inflight[r]
           hyde == generate_hypothetical_answer(req.user_query[1], resp)
       IN  inflight' = [inflight EXCEPT
              ![r].hypothetical_answer = hyde,
              ![r].queries = ExpandedQueries(req.user_query[1], req.multi_queries,
                                             req.step_back_query, hyde),
              ![r].pc = "embed"]
    /\ UNCHANGED <<seqVars, heap>>

\* chat.py 48-55: an embedding returns; after the last one search_batch is awaited
ConcEmbedReturns(r) ==
    /\ inflight[r].pc = "embed"
    /\ LET req == inflight[r]
           vectors == Append(req.query_embeddings,
                             EmbeddingOf(req.queries[Len(req.query_embeddings) + 1]))
       IN  inflight' = [inflight EXCEPT
              ![r].query_embeddings = vectors,
              ![r].pc = IF Len(vectors) = Len(req.queries) THEN "search" ELSE "embed"]
    /\ UNCHANGED <<seqVars, heap>>

\* chat.py 49 raising, caught at chat.py 176
ConcEmbedRaises(r) ==
    /\ inflight[r].pc = "embed"
    /\ inflight' = [inflight EXCEPT ![r].response = Handler("embedding failed"),
                                    ![r].pc = "done"]
    /\ UNCHANGED <<seqVars, heap>>

\* chat.py 53 raising, caught at chat.py 176
ConcSearchRaises(r) ==
    /\ inflight[r].pc = "search"
    /\ inflight' = [inflight EXCEPT ![r].response = Handler("search failed"),
                                    ![r].pc = "done"]
    /\ UNCHANGED <<seqVars, heap>>

\* chat.py 53-97 and, with nothing to re-rank, 139-166: the search returns
\* its lists as objects; the fusion; the documents to re-rank; the await of
\* rerank_documents or, without documents, of generate_content
ConcSearchReturns(r, lists) ==
    /\ inflight[r].pc = "search"
    /\ LET req == inflight[r]
           addr(l, p) == ObjectAddress(r, l, p, lists[l][p].id)
           places == {o \in (DOMAIN lists) \X (1..MaxHits) : o[2] <= Len(lists[o[1]])}
           made == {addr(o[1], o[2]) : o \in places}
           h == [a \in DOMAIN heap \cup made |->
                    IF a \in made
                    THEN LET o == CHOOSE x \in places : addr(x[1], x[2]) = a
                         IN  lists[o[1]][o[2]]
                    ELSE heap[a]]
           batch == [l \in DOMAIN lists |->
                        [p \in DOMAIN lists[l] |-> Handle(h, addr(l, p))]]
           fused == FusedHits(AddLists(NoDocs, batch), top_k)
           refs == [i \in DOMAIN fused |-> fused[i].ref]
           docs == DocsToRerank(Deref(h, refs))
           fusedReq == [req EXCEPT !.lists = Some(lists), !.all_hits = refs,
                                   !.docs_to_rerank = docs]
       IN  /\ heap' = h
           /\ inflight' = [inflight EXCEPT ![r] =
                  IF docs = <<>> THEN Assembled(fusedReq, <<>>)
                  ELSE [fusedReq EXCEPT !.pc = "rerank"]]
    /\ UNCHANGED seqVars

\* chat.py 95-166: rerank_documents returns; the selection, which writes the
\* scores into the objects; the assembly; the await of generate_content
ConcRerankReturns(r, resp) ==
    /\ inflight[r].pc = "rerank"
    /\ LET req == inflight[r]
           pairs == rerank_documents(req.user_query[1], req.docs_to_rerank, top_k, resp)
           st == SelectedHits(Deref(heap, req.all_hits), pairs)
           h == [a \in DOMAIN heap |->
                    IF \E i \in DOMAIN req.all_hits : req.all_hits[i] = a
                    THEN st.hits[CHOOSE i \in DOMAIN req.all_hits : req.all_hits[i] = a]
                    ELSE heap[a]]
           final == [i \in DOMAIN st.picked |-> req.all_hits[st.picked[i]]]
           ranked == [req EXCEPT !.scoring = Some(resp), !.ranked_indices = pairs]
       IN  /\ heap' = h
           /\ inflight' = [inflight EXCEPT ![r] =
                  IF st.raised
                  THEN [ranked EXCEPT !.response = Handler("IndexError"), !.pc = "done"]
                  ELSE Assembled([ranked EXCEPT !.final_hits = final], Deref(h, final))]
    /\ UNCHANGED seqVars

\* chat.py 164-174
ConcGenerateReturns(r) ==
    /\ inflight[r].pc = "generate"
    /\ inflight' = [inflight EXCEPT
          ![r].response = [status |-> 200, response |-> "answer",
                           citations |-> inflight[r].citations],
          ![r].pc = "done"]
    /\ UNCHANGED <<seqVars, heap>>

\* chat.py 164 raising, caught at chat.py 176
ConcGenerateRaises(r) ==
    /\ inflight[r].pc = "generate"
    /\ inflight' = [inflight EXCEPT ![r].response = Handler("generation failed"),
                                    ![r].pc = "done"]
    /\ UNCHANGED <<seqVars, heap>>

ConcExpand(r) ==
    \/ \E resp \in ConcMultiResponses : ConcMultiReturns(r, resp)
    \/ \E resp \in ConcStepBackResponses : ConcStepBackReturns(r, resp)
    \/ \E resp \in ConcHydeResponses : ConcHydeReturns(r, resp)

ConcSearch(r) ==
    \E lists \in [DOMAIN inflight[r].query_embeddings -> ConcRankedLists] :
        ConcSearchReturns(r, lists)

ConcRerank(r) == \E resp \in ConcScoringResponses : ConcRerankReturns(r, resp)

NextConc ==
    \E r \in RequestIds :
        \/ ConcStart(r)
        \/ ConcExpand(r)
        \/ ConcEmbedReturns(r)
        \/ ConcEmbedRaises(r)
        \/ ConcSearch(r)
        \/ ConcSearchRaises(r)
        \/ ConcRerank(r)
        \/ ConcGenerateReturns(r)
        \/ ConcGenerateRaises(r)

SpecConc == InitConc /\ [][NextConc]_vars

----------------------------------------------------------------------------
(* Properties.                                                             *)

\* the expansion has returned and its locals are still there
Expanded == pc = "embed" /\ query_embeddings = <<>>

\* everything the expansion collected before deduplicating, in order
Gathered ==
    <<user_query[1]>> \o multi_queries
        \o (IF Truthy(step_back_query) THEN <<step_back_query[1]>> ELSE <<>>)
        \o (IF Truthy(hypothetical_answer) THEN <<hypothetical_answer[1]>> ELSE <<>>)

FirstIndex(s, x) == CHOOSE i \in DOMAIN s : s[i] = x /\ \A j \in 1..(i - 1) : s[j] # x

\* C1: whatever the three generators return (also texts repeating the
\* question or each other), the list _generate_expanded_queries returns
\* starts with the question, has no two equal texts, holds exactly the
\* texts collected, and keeps them in the order of their first appearance.
C1_QuerySetOriginalFirstDistinct ==
    Expanded =>
        /\ queries # <<>>
        /\ queries[1] = user_query[1]
        /\ NoDuplicates(queries)
        /\ Range(queries) = Range(Gathered)
        /\ \A i, j \in DOMAIN queries :
              i < j => FirstIndex(Gathered, queries[i]) < FirstIndex(Gathered, queries[j])

\* a multi-query line repeats the question, the step-back query repeats a
\* multi-query line, and three distinct texts remain
C1_Witness ==
    /\ Expanded
    /\ user_query[1] \in Range(multi_queries)
    /\ Truthy(step_back_query) /\ step_back_query[1] \in Range(multi_queries)
    /\ step_back_query[1] # user_query[1]
    /\ Len(queries) = 3
    /\ Len(Gathered) > 4

Generators == {"multi", "step_back", "hyde"}

SearchCalls == CallsOf("search_batch")

\* C2: when the model call of all three generators raised, the query list
\* is the question alone, and the batched search gets exactly one embedding.
C2_AllFailSingleQuery ==
    (gen_failed = Generators /\ pc # "hyde") =>
        /\ queries = <<user_query[1]>>
        /\ \A i \in DOMAIN SearchCalls : Len(SearchCalls[i].args[1]) = 1

\* all three failed and the search was issued
C2_Witness ==
    /\ gen_failed = Generators
    /\ Len(SearchCalls) = 1
    /\ ~SearchCalls[1].raised
    /\ pc = "fusion"

\* the texts a generator contributed, none if its model call raised
VariantsOf(g) ==
    IF g \in gen_failed THEN {}
    ELSE CASE g = "multi" -> Range(multi_queries)
           [] g = "step_back" ->
                IF Truthy(step_back_query) THEN {step_back_query[1]} ELSE {}
           [] g = "hyde" ->
                IF Truthy(hypothetical_answer) THEN {hypothetical_answer[1]} ELSE {}

\* C3: for every combination of generators whose model call raised, when
\* the expansion returns each generator was called exactly once with the
\* question, no exception has escaped, and the query list holds the
\* question and the variants of exactly the generators that succeeded.
C3_GeneratorFailuresIsolated ==
    Expanded =>
        /\ [i \in DOMAIN calls |-> calls[i].fn] =
              <<"generate_multi_queries", "generate_step_back_query",
                "generate_hypothetical_answer">>
        /\ \A i \in DOMAIN calls : calls[i].args = <<user_query[1]>> /\ ~calls[i].raised
        /\ response = Pending
        /\ Range(queries) =
              {user_query[1]} \cup UNION {VariantsOf(g) : g \in Generators}

\* multi-query and HyDE failed, step-back succeeded: its variant alone is added
C3_Witness ==
    /\ Expanded
    /\ gen_failed = {"multi", "hyde"}
    /\ queries = <<user_query[1], <<"s">> >>

----------------------------------------------------------------------------
(* Properties of the fusion.                                               *)

\* the fusion has returned and its locals are still there
Fused == pc = "rerank" /\ batch_results # <<>>

\* the places <<list, position>> (from 1) at which hit id occurs
Occurrences(id) ==
    {o \in (DOMAIN batch_results) \X (1..MaxHits) :
        o[2] <= Len(batch_results[o[1]]) /\ batch_results[o[1]][o[2]].id = id}

IdsReturned == {id \in HitIds : Occurrences(id) # {}}

\* the sum over the places in O of 1/(rrf_k + r + 1), r the zero-based rank,
\* in units of 1/RrfDen
RECURSIVE ReciprocalRankSum(_)
ReciprocalRankSum(O) ==
    IF O = {} THEN 0
    ELSE LET o == CHOOSE x \in O : TRUE
         IN  RrfDen \div (RrfK + o[2]) + ReciprocalRankSum(O \ {o})

\* C4: the fusion score of every hit id is the sum of 1/(60 + r + 1) over
\* every list and zero-based position r at which it occurs, nothing for a
\* list it does not occur in; at rank 0 of exactly one of two lists that is
\* 1/61, at rank 0 of both 2/61.
C4_ReciprocalRankFusionScore ==
    Fused =>
        /\ DOMAIN doc_scores = IdsReturned
        /\ \A id \in IdsReturned :
              /\ doc_scores[id] = ReciprocalRankSum(Occurrences(id))
              /\ (Len(batch_results) = 2 /\ Occurrences(id) \in {{<<1, 1>>}, {<<2, 1>>}})
                    => doc_scores[id] * 61 = RrfDen
              /\ (Len(batch_results) = 2 /\ Occurrences(id) = {<<1, 1>>, <<2, 1>>})
                    => doc_scores[id] * 61 = 2 * RrfDen

\* two lists: h1 first in both, h2 second in the first only, h3 in neither
C4_Witness ==
    /\ Fused
    /\ Len(batch_results) = 2
    /\ Occurrences("h1") = {<<1, 1>>, <<2, 1>>}
    /\ Occurrences("h2") = {<<1, 2>>}
    /\ Occurrences("h3") = {}

\* C5: the fused list holds every hit id at most once, however often the id
\* occurs in the ranked lists, and every one of its n occurrences has added
\* to its fusion score: the score lies between n/(60 + MaxHits) and n/61.
C5_FusedIdsUnique ==
    Fused =>
        /\ NoDuplicates([i \in DOMAIN all_hits |-> all_hits[i].id])
        /\ NoDuplicates(doc_keys)
        /\ \A id \in IdsReturned :
              LET n == Cardinality(Occurrences(id))
              IN  /\ doc_scores[id] * (RrfK + MaxHits) >= n * RrfDen
                  /\ doc_scores[id] * (RrfK + 1) <= n * RrfDen

\* h1 occurs twice in one list and once in the other, and once in the fused list
C5_Witness ==
    /\ Fused
    /\ Cardinality(Occurrences("h1")) = 3
    /\ Cardinality({i \in DOMAIN all_hits : all_hits[i].id = "h1"}) = 1

\* the first place, list by list and rank by rank, at which hit id occurs
FirstOccurrence(id) ==
    CHOOSE o \in Occurrences(id) :
        \A p \in Occurrences(id) : o[1] < p[1] \/ (o[1] = p[1] /\ o[2] <= p[2])

\* two ranked lists, each the same single hit id
SameSingleHitTwice ==
    /\ Fused
    /\ Len(batch_results) = 2
    /\ Len(batch_results[1]) = 1 /\ Len(batch_results[2]) = 1
    /\ batch_results[1][1].id = batch_results[2][1].id

----------------------------------------------------------------------------
(* Properties of the re-ranking and of the request.                        *)

Ids(hits) == [i \in DOMAIN hits |-> hits[i].id]

\* C7: the final result list, the citations and the citations of the
\* response never have more than top_k entries, whatever the scoring call
\* did (scores, unparseable output, failure).
C7_AtMostTopKResults ==
    /\ Len(ranked_indices) <= top_k
    /\ Len(final_hits) <= top_k
    /\ Len(citations) <= top_k
    /\ response.status = 200 => Len(response.citations) <= top_k

\* more candidates than top_k, unparseable scores: top_k citations returned
C7_Witness ==
    /\ pc = "done"
    /\ response.status = 200
    /\ rerank_outcome = "unparseable"
    /\ Len(docs_to_rerank) > top_k
    /\ Len(response.citations) = top_k

\* the pairs returned whose index is a position of the candidate list
InRangePairs ==
    SelectSeq(ranked_indices, LAMBDA p : 0 <= p[1] /\ p[1] < Len(all_hits))

\* C8: once _rerank_results has run over the pairs returned, no exception
\* was raised and the results are the candidates of the pairs whose index
\* lies in [0, len(candidates)), in order; every other pair, a negative
\* index included, selected nothing.
C8_OutOfRangePairsDiscarded ==
    pc # "select" =>
        /\ response = Pending
        /\ Ids(final_hits) =
              [i \in DOMAIN InRangePairs |-> all_hits[InRangePairs[i][1] + 1].id]

\* C9: when the scoring call raised, the final results are the fused list
\* in its order, cut to top_k, and the request does not end in an error
\* (but for a failure of the answer generation).
C9_TransportFailureKeepsFusedOrder ==
    (rerank_outcome = "failed" /\ pc \in {"assemble", "generate", "done"}) =>
        /\ Ids(final_hits) = Ids(Take(all_hits, top_k))
        /\ pc = "done" =>
              \/ response.status = 200
              \/ calls[Len(calls)] =
                    RaisedCall("generate_content", <<user_query[1], context>>)

RaisedCalls(fns) == SelectSeq(calls, LAMBDA c : c.fn \in fns /\ c.raised)

\* C10: once a query embedding call or the batched search call has raised,
\* the request is over with an error response, the failing call was its
\* last call, no search was issued after a failed embedding, and nothing
\* was fused, re-ranked, assembled or generated.
C10_RetrievalFailureIsFatal ==
    RaisedCalls({"get_query_embedding", "search_batch"}) # <<>> =>
        /\ pc = "done"
        /\ response.status = 500
        /\ calls[Len(calls)].raised
        /\ Len(RaisedCalls({"get_query_embedding", "search_batch"})) = 1
        /\ RaisedCalls({"get_query_embedding"}) # <<>> => SearchCalls = <<>>
        /\ CallsOf("rerank_documents") = <<>>
        /\ CallsOf("generate_content") = <<>>
        /\ batch_results = <<>> /\ doc_keys = <<>> /\ all_hits = <<>>
        /\ final_hits = <<>> /\ citations = <<>>

\* the second embedding call raised after the first had returned a vector
C10_Witness ==
    /\ RaisedCalls({"get_query_embedding"}) # <<>>
    /\ Len(query_embeddings) = 1
    /\ Len(queries) > 1
    /\ pc = "done"

\* C11: a request with a user question in which no embedding call, no
\* search call and no generation call raised completes with a response
\* (status 200), whichever expansion generators failed and whatever the
\* scoring call of the re-ranking did (raised, unparseable or scored).
C11_RecoverableErrorsNeverAbort ==
    (/\ pc = "done"
     /\ Truthy(user_query)
     /\ RaisedCalls({"get_query_embedding", "search_batch", "generate_content"}) = <<>>)
        => response.status = 200

\* the request got past retrieval and re-ranking with nothing to cite
NothingRetrieved ==
    /\ Truthy(user_query)
    /\ RaisedCalls({"get_query_embedding", "search_batch"}) = <<>>
    /\ final_hits = <<>>

\* C12: when the final result list is empty, the context is empty (the
\* join of no parts is the empty string), the citation list is empty, and
\* the answer generator is still called, exactly once, with the user's
\* question and that empty context; the response carries no citation.
C12_EmptyResultsStillGenerate ==
    /\ (pc \in {"generate", "done"} /\ NothingRetrieved) =>
          context = <<>> /\ citations = <<>>
    /\ (pc = "done" /\ NothingRetrieved) =>
          /\ Len(CallsOf("generate_content")) = 1
          /\ CallsOf("generate_content")[1].args = <<user_query[1], <<>>>>
          /\ response.status = 200 => response.citations = <<>>

\* the search found nothing for any of several queries and an answer was made
C12_Witness ==
    /\ pc = "done"
    /\ NothingRetrieved
    /\ Len(queries) > 1
    /\ SearchCalls # <<>>
    /\ all_hits = <<>>
    /\ response.status = 200

\* C13: every call of the re-ranker and every call of the answer generator
\* is given the user's question (the content of the last user message) as
\* its query resp. prompt, never another member of the query list.
C13_OriginalQuestionToRerankAndGenerate ==
    \A i \in DOMAIN calls :
        calls[i].fn \in {"rerank_documents", "generate_content"} =>
            /\ calls[i].args[1] = LastUserContent(messages)[1]
            /\ \A k \in 2..Len(queries) : calls[i].args[1] # queries[k]

\* a request with expanded variants called the re-ranker and the generator
C13_Witness ==
    /\ pc = "done"
    /\ Len(queries) > 1
    /\ CallsOf("rerank_documents") # <<>>
    /\ CallsOf("generate_content") # <<>>

EmbedCalls == CallsOf("get_query_embedding")

\* C14: a request issues the batched search at most once, and exactly once
\* when it gets past the retrieval; the embedder is called once per query,
\* in the order of the query list; when the search is issued every query
\* has been embedded without failure, every embedding call precedes it, and
\* it carries one embedding per query, in the order of the query list,
\* with the limit 2 * top_k.
C14_OneBatchedSearchAfterAllEmbeddings ==
    /\ Len(SearchCalls) <= 1
    /\ Len(EmbedCalls) <= Len(queries)
    /\ \A i \in DOMAIN EmbedCalls : EmbedCalls[i].args = <<queries[i]>>
    /\ pc \in {"fusion", "rerank", "select", "assemble", "generate"} =>
          Len(SearchCalls) = 1
    /\ SearchCalls # <<>> =>
          /\ Len(EmbedCalls) = Len(queries)
          /\ \A i \in DOMAIN EmbedCalls : ~EmbedCalls[i].raised
          /\ \A i, j \in DOMAIN calls :
                (calls[i].fn = "get_query_embedding" /\ calls[j].fn = "search_batch")
                    => i < j
          /\ SearchCalls[1].args =
                <<[i \in DOMAIN queries |-> EmbeddingOf(queries[i])], 2 * top_k>>

\* the search was issued for a list of three queries
C14_Witness ==
    /\ pc = "fusion"
    /\ Len(queries) = 3
    /\ Len(SearchCalls) = 1
    /\ ~SearchCalls[1].raised

\* C15: once the answer-generation call has raised, the request is over
\* with an error (status 500), that call was its last, and the response
\* holds neither an answer nor citations.
C15_GenerationFailureIsFatal ==
    RaisedCalls({"generate_content"}) # <<>> =>
        /\ pc = "done"
        /\ response.status = 500
        /\ calls[Len(calls)].fn = "generate_content"
        /\ Len(CallsOf("generate_content")) = 1
        /\ "response" \notin DOMAIN response
        /\ "citations" \notin DOMAIN response

\* the generation raised after citations had been built
C15_Witness ==
    /\ RaisedCalls({"generate_content"}) # <<>>
    /\ citations # <<>>
    /\ pc = "done"

\* place o comes before place p, list by list and rank by rank
EncounteredBefore(o, p) == o[1] < p[1] \/ (o[1] = p[1] /\ o[2] < p[2])

\* hit id a is to stand before hit id b in the fused list
RanksBefore(a, b) ==
    \/ doc_scores[a] > doc_scores[b]
    \/ /\ doc_scores[a] = doc_scores[b]
       /\ EncounteredBefore(FirstOccurrence(a), FirstOccurrence(b))

\* C17: the fused list is in descending order of fusion score, hits of
\* equal fusion score in the order in which they were first encountered
\* (list by list, rank by rank); the hits cut off by the limit are the last
\* of that order.
C17_FusedOrderDescendingStable ==
    Fused =>
        /\ \A i, j \in DOMAIN all_hits :
              i < j => RanksBefore(all_hits[i].id, all_hits[j].id)
        /\ \A i \in DOMAIN all_hits :
              \A id \in IdsReturned \ Range(Ids(all_hits)) :
                  RanksBefore(all_hits[i].id, id)

\* a tie kept in encounter order behind a higher score: h1 leads both lists,
\* h3 is second in the first list and h2 second in the second
C17_Witness ==
    /\ Fused
    /\ Len(batch_results) = 2
    /\ Ids(batch_results[1]) = <<"h1", "h3">>
    /\ Ids(batch_results[2]) = <<"h1", "h2">>
    /\ Ids(all_hits) = <<"h1", "h3", "h2">>
    /\ doc_scores["h3"] = doc_scores["h2"]

\* the hits whose content was submitted to the scoring call: Document i
\* (from 0) is the content of CandidatesSubmitted[i + 1]
CandidatesSubmitted == SelectSeq(all_hits, HasPayload)

\* C18: when the scoring call returned scores, after the selection the
\* k-th final result is the candidate whose content was submitted as
\* Document i, (i, s) being the k-th pair rerank_documents returned, and
\* it carries the score s; so does its citation.
\* This for every fused list, with or without payload-less candidates.
C18_ScoreAttachedToScoredCandidate ==
    (pc \in {"assemble", "generate", "done"} /\ rerank_outcome = "scored") =>
        /\ Len(final_hits) = Len(ranked_indices)
        /\ \A k \in DOMAIN final_hits :
              /\ final_hits[k].id = CandidatesSubmitted[ranked_indices[k][1] + 1].id
              /\ final_hits[k].score = ranked_indices[k][2]
        /\ pc = "generate" =>
              \A k \in DOMAIN citations : citations[k].score = ranked_indices[k][2]

----------------------------------------------------------------------------
(* Properties of rerank_documents.                                         *)

\* rerank_documents has returned from a call in which the model answered
\* with a text
ScoringAnswered ==
    pc = "returned" /\ scoring_response # None /\ scoring_response[1].ok

\* the fields of that text, and the numbers among them in their order
ScoringFields == scoring_response[1].text

NumbersGiven ==
    LET nums == SelectSeq(ScoringFields, LAMBDA f : f.kind = "num")
    IN  [i \in DOMAIN nums |-> nums[i].val]

AllParse == \A i \in DOMAIN ScoringFields : ScoringFields[i].kind # "junk"

\* pair p is to stand before pair q: higher score, or equal score and
\* earlier document
PairBefore(p, q) == p[2] > q[2] \/ (p[2] = q[2] /\ p[1] < q[1])

\* C19: when the scoring response parses and holds exactly one score per
\* document (n documents), rerank_documents returns min(top_n, n) pairs
\* (input index, score of that document), no index twice, in descending
\* order of score, equal scores in input order, and no document left out
\* ranks before a document returned.
C19_TopScoresDescendingStable ==
    (ScoringAnswered /\ AllParse /\ Len(NumbersGiven) = Len(docs_to_rerank)) =>
        LET n == Len(docs_to_rerank)
            r == ranked_indices
            returned == {r[k][1] : k \in DOMAIN r}
        IN  /\ Len(r) = Min(top_k, n)
            /\ \A k \in DOMAIN r :
                  /\ r[k][1] \in 0..(n - 1)
                  /\ r[k][2] = NumbersGiven[r[k][1] + 1]
            /\ \A k, l \in DOMAIN r : k < l => PairBefore(r[k], r[l])
            /\ \A i \in (0..(n - 1)) \ returned :
                  \A k \in DOMAIN r : PairBefore(r[k], <<i, NumbersGiven[i + 1]>>)

\* three documents scored 0.1, 0.9, 0.9 and top_n = 2: the two tied
\* documents in input order, the first document left out
C19_Witness ==
    /\ ScoringAnswered
    /\ Len(docs_to_rerank) = 3
    /\ top_k = 2
    /\ ScoringFields = <<Num(10), Num(90), Num(90)>>
    /\ ranked_indices = << <<1, 90>>, <<2, 90>> >>

----------------------------------------------------------------------------
(* Further properties of the request.                                      *)

\* _rerank_results has returned
Reranked ==
    \/ pc \in {"assemble", "generate"}
    \/ pc = "done" /\ SearchCalls # <<>> /\ ~SearchCalls[1].raised
                   /\ response # Handler("IndexError")

\* C21: when there is no candidate to re-rank (no fused hit, or none with
\* a payload), the re-ranking returns the empty list and the scoring call,
\* gemini_client.rerank_documents, is never made.
C21_NoCandidatesNoScoringCall ==
    (Reranked /\ DocsToRerank(all_hits) = <<>>) =>
        /\ final_hits = <<>>
        /\ ranked_indices = <<>>
        /\ CallsOf("rerank_documents") = <<>>

\* the search of several queries found nothing and the re-ranking is over
C21_Witness ==
    /\ pc = "assemble"
    /\ all_hits = <<>>
    /\ Len(queries) > 1
    /\ SearchCalls # <<>>

\* C22: the fused list has at most 2 * top_k entries, however many lists
\* the search returned and however many distinct hits they hold.
C22_FusedAtMostOversample ==
    Fused => Len(all_hits) <= 2 * top_k

\* top_k = 1 and three distinct hits over two lists: the fused list is cut to two
C22_Witness ==
    /\ Fused
    /\ top_k = 1
    /\ Cardinality(IdsReturned) = 3
    /\ Len(all_hits) = 2

\* C23: the query list has at least 1 and at most 1 + N + 1 + 1 members
\* (6 for the default N = 3): the multi-query generator gives at most N
\* queries however many lines the model returned, the step-back and the
\* hypothetical-answer generators at most one each.
C23_QuerySetLengthBounds ==
    Expanded =>
        /\ Len(queries) >= 1
        /\ Len(queries) <= 1 + DefaultN + 1 + 1
        /\ Len(multi_queries) <= DefaultN
        /\ Len(step_back_query) <= 1
        /\ Len(hypothetical_answer) <= 1
        /\ DefaultN = 3 => Len(queries) <= 6

\* the longest list: three variants, a step-back query and a hypothetical answer
C23_Witness ==
    /\ Expanded
    /\ Len(multi_queries) = DefaultN
    /\ Truthy(step_back_query)
    /\ Truthy(hypothetical_answer)
    /\ Len(queries) = 1 + DefaultN + 1 + 1

\* payload or {}
PayloadDict(hit) == IF hit.payload = None THEN <<>> ELSE hit.payload[1]

\* the source label of a result: the source of its metadata, or "Unknown"
SourceLabel(hit) ==
    IF /\ "metadata" \in DOMAIN PayloadDict(hit)
       /\ "source" \in DOMAIN PayloadDict(hit).metadata
    THEN PayloadDict(hit).metadata.source
    ELSE "Unknown"

\* C24: once the re-ranking has returned and the assembly is over, there is
\* one context block and one citation per final result, in the order of the
\* final results; the i-th block and the i-th citation hold the content and
\* the source label of the i-th result, the citation also its chunk id, and
\* the label is "Unknown" for a result whose metadata gives no source.
C24_ContextAndCitationsParallel ==
    (Reranked /\ pc \in {"generate", "done"}) =>
        /\ Len(context) = Len(final_hits)
        /\ Len(citations) = Len(final_hits)
        /\ \A i \in DOMAIN final_hits :
              /\ context[i] = [source |-> SourceLabel(final_hits[i]),
                               content |-> PayloadDict(final_hits[i]).content]
              /\ citations[i].chunk_id = final_hits[i].id
              /\ citations[i].content = PayloadDict(final_hits[i]).content
              /\ citations[i].filename = SourceLabel(final_hits[i])

\* C26: a request with no user message of non-empty content ends with
\* status 400, and no collaborator was called for it.
C26_NoUserMessageIs400 ==
    (pc = "done" /\ ~Truthy(LastUserContent(messages))) =>
        /\ response.status = 400
        /\ calls = <<>>

ChunkIds(cs) == [i \in DOMAIN cs |-> cs[i].chunk_id]

\* C27: no chunk id occurs twice in the citation list, nor in the list the
\* response carries, whatever the scoring call did (scored, unparseable,
\* raised) and also when there was nothing to re-rank.
C27_CitationsHaveDistinctChunkIds ==
    /\ NoDuplicates(ChunkIds(citations))
    /\ NoDuplicates(Ids(final_hits))
    /\ (pc = "done" /\ response.status = 200) =>
          /\ response.citations = citations
          /\ NoDuplicates(ChunkIds(response.citations))

\* two citations in the response after the scoring call raised, the search
\* having returned lists for three queries (two of them the same hit or not)
C27_Witness ==
    /\ pc = "done"
    /\ response.status = 200
    /\ Len(response.citations) = 2
    /\ rerank_outcome = "failed"
    /\ Len(queries) = 3

Scores(hits) == [i \in DOMAIN hits |-> hits[i].score]

NonIncreasing(s) == \A i, j \in DOMAIN s : i < j => s[i] >= s[j]

\* C28: the scores of the final results never increase along their order,
\* and so the scores of the citations: after a scored response they are the
\* returned scores in descending order, after an unparseable one 1.0,
\* 0.99, ... (1.0 - 0.01 * i), after a failed call all 1.0.
C28_FinalScoresNonIncreasing ==
    /\ NonIncreasing(Scores(final_hits))
    /\ NonIncreasing(Scores(citations))
    /\ (pc \in {"assemble", "generate", "done"} /\ rerank_outcome # "none") =>
          /\ Len(final_hits) = Len(ranked_indices)
          /\ \A k \in DOMAIN final_hits :
                /\ final_hits[k].score = ranked_indices[k][2]
                /\ rerank_outcome = "unparseable" => final_hits[k].score = 100 - (k - 1)
                /\ rerank_outcome = "failed" => final_hits[k].score = 100

\* the second document scored higher than the first: both final results,
\* the higher score first
C28_Witness ==
    /\ pc = "generate"
    /\ rerank_outcome = "scored"
    /\ ranked_indices = << <<1, 90>>, <<0, 10>> >>
    /\ Scores(final_hits) = <<90, 10>>
    /\ Scores(citations) = <<90, 10>>

\* C29: when the scoring response parses, with m scores for n documents,
\* rerank_documents returns exactly min(m, n, top_n) pairs, their indices
\* distinct and below min(m, n), each with the score given at its index: a
\* document beyond the m-th is not returned, a score beyond the n-th is not
\* used.
C29_PairsLimitedByScoresAndDocuments ==
    (ScoringAnswered /\ AllParse) =>
        LET m == Len(NumbersGiven)
            n == Len(docs_to_rerank)
            r == ranked_indices
        IN  /\ Len(r) = Min(Min(m, n), top_k)
            /\ \A k \in DOMAIN r :
                  /\ r[k][1] >= 0
                  /\ r[k][1] < Min(m, n)
                  /\ r[k][2] = NumbersGiven[r[k][1] + 1]
            /\ \A k, l \in DOMAIN r : r[k][1] = r[l][1] => k = l

\* one score for three documents and top_n = 2: one pair
C29_Witness ==
    /\ ScoringAnswered
    /\ Len(docs_to_rerank) = 3
    /\ top_k = 2
    /\ ScoringFields = <<Num(90)>>
    /\ ranked_indices = << <<0, 90>> >>

\* the hits the ranked lists hold
HitsReturned ==
    {batch_results[l][p] : <<l, p>> \in
        {o \in (DOMAIN batch_results) \X (1..MaxHits) : o[2] <= Len(batch_results[o[1]])}}

\* C30: every entry of the fused list is a hit of one of the ranked lists,
\* and when the lists hold at most 2 * top_k distinct hit ids the fused
\* list holds every one of them.
C30_FusionNeitherInventsNorLoses ==
    Fused =>
        /\ \A i \in DOMAIN all_hits : all_hits[i] \in HitsReturned
        /\ Range(Ids(all_hits)) \subseteq IdsReturned
        /\ Cardinality(IdsReturned) <= 2 * top_k =>
              Range(Ids(all_hits)) = IdsReturned

\* top_k = 1 and two distinct hits over two lists, one of them in both:
\* both are in the fused list
C30_Witness ==
    /\ Fused
    /\ top_k = 1
    /\ Len(batch_results) = 2
    /\ Cardinality(IdsReturned) = 2
    /\ \E id \in IdsReturned : Cardinality(Occurrences(id)) > 1
    /\ Range(Ids(all_hits)) = IdsReturned

----------------------------------------------------------------------------
(* Properties of concurrent requests. What a request produces when it runs *)
(* alone is what the operators of the sequential request give for the      *)
(* question it asked and the responses its own calls returned.             *)

AloneQueries(req) ==
    ExpandedQueries(req.question, req.multi_queries, req.step_back_query,
                    req.hypothetical_answer)

AloneFused(req) == FusedHits(AddLists(NoDocs, req.lists[1]), top_k)

AloneSelected(req) ==
    IF DocsToRerank(AloneFused(req)) = <<>>
    THEN [hits |-> AloneFused(req), picked |-> <<>>, raised |-> FALSE]
    ELSE SelectedHits(AloneFused(req),
                      rerank_documents(req.question, DocsToRerank(AloneFused(req)),
                                       top_k, req.scoring[1]))

AloneFinal(req) ==
    LET st == AloneSelected(req) IN [i \in DOMAIN st.picked |-> st.hits[st.picked[i]]]

AloneCitations(req) ==
    IF \E i \in DOMAIN AloneFinal(req) : SearchResultRaises(AloneFinal(req)[i])
    THEN <<>>
    ELSE [i \in DOMAIN AloneFinal(req) |-> Citation(AloneFinal(req)[i])]

\* the re-ranking of the request is over, or was not needed
ConcReranked(req) ==
    req.lists # None /\ (req.scoring # None \/ req.docs_to_rerank = <<>>)

\* C25: whatever the interleaving of two requests at their awaited calls,
\* each request's query list, fused list, final results and citations are
\* at every moment those it produces alone from its own question and the
\* responses to its own calls: while it waits for the scoring its fused
\* hits are as the search returned them, and from the selection on its
\* fused and final hits carry the scores of its own re-ranking.
C25_ConcurrentRequestsDoNotInterfere ==
    \A r \in RequestIds :
        LET req == inflight[r]
        IN  /\ req.queries # <<>> => req.queries = AloneQueries(req)
            /\ (req.lists # None /\ ~ConcReranked(req)) =>
                  Deref(heap, req.all_hits) = AloneFused(req)
            /\ ConcReranked(req) =>
                  /\ Deref(heap, req.all_hits) = AloneSelected(req).hits
                  /\ Deref(heap, req.final_hits) = AloneFinal(req)
                  /\ req.citations = AloneCitations(req)
                  /\ req.response.status = 200 =>
                        req.response.citations = AloneCitations(req)

\* both requests were answered the same hit, request 1 scored it 0.1 and has
\* its citation, and request 2 then scored its own object 0.9
C25_Witness ==
    /\ inflight[1].pc \in {"generate", "done"}
    /\ inflight[2].pc \in {"generate", "done"}
    /\ Len(inflight[1].citations) = 1 /\ inflight[1].citations[1].chunk_id = "h1"
    /\ Len(inflight[2].citations) = 1 /\ inflight[2].citations[1].chunk_id = "h1"
    /\ inflight[1].citations[1].score = 10
    /\ inflight[2].citations[1].score = 90
    /\ Deref(heap, inflight[1].final_hits)[1].score = 10

====
